---- MODULE Spec2Model ----
(***************************************************************************)
(* Token / session lifecycle of the FusionAuth React front end.            *)
(*                                                                         *)
(* services/api.ts exists in three generations in the sources:             *)
(*   - the cookie generation (getCookie, getAccessTokenFromCookie, the     *)
(*     axios AuthService used by contexts/AuthContext.tsx), and            *)
(*   - the token-manager generation (TokenManager, the fetch AuthService,  *)
(*     FrontendAuth).                                                      *)
(* Both read and write the same local-store keys, so they are modelled     *)
(* over one shared state.  Definitions of the cookie generation that       *)
(* clash by name with the token-manager generation carry the prefix        *)
(* Cookie.                                                                 *)
(*                                                                         *)
(* A credential string is modelled by what String.split('.') returns for   *)
(* it: a non-empty sequence of segments.  A segment is described by what   *)
(* atob and JSON.parse make of it.                                         *)
(***************************************************************************)
EXTENDS Integers, Sequences, FiniteSets, TLC

VARIABLES
  now,           \* Math.floor(Date.now() / 1000)
  dev,           \* isDevelopmentCrossDomain
  localStorage,  \* fa_access_token, fa_refresh_token, fa_id_token
  cookie,        \* document.cookie: fa_access_token, fa_refresh_token
  href,          \* window.location.href
  user,          \* AuthProvider: useState<User | null>
  isLoading,     \* AuthProvider: useState(true)
  error,         \* AuthProvider: useState<string | null>
  loginLoading,  \* Navigation / Home: useState(false)
  loginError,    \* Navigation / Home: useState('')
  loginTask,     \* handleLoginSubmit suspended in initiateLogin's fetch
  refreshTask,   \* AuthService.refreshToken suspended in its fetch
  logoutTask,    \* AuthProvider.logout suspended in authService.logout
  loadTask,      \* AuthProvider.loadUser: where it is suspended
  refetchTask,   \* a second loadUser, started by refetchUser: where it is suspended
  envDev,        \* import.meta.env.DEV
  search,        \* window.location.search includes 'login=success'
  exchangeTask,  \* AuthService.initializeTokens suspended in the exchange fetch
  checkTask,     \* AuthService.checkAuth: where it is suspended, exchanges so far
  timers,        \* repeating timers setInterval has registered in this document
  initiateTask,  \* FrontendAuth.initiateLogin suspended in its fetch
  probe,         \* input and verdict of the codec run (SpecCodec)
  last,          \* the call that ran last: what it returned, the store it found
  prev           \* the call that ran before it, and whether it found the store bare

\* the deployment: fixed when the bundle is built
env == <<dev, envDev>>
\* state of the AuthProvider component and of its suspended calls
provider == <<user, isLoading, error, logoutTask, loadTask, refetchTask, search>>
\* state of the login form
form == <<loginLoading, loginError, loginTask>>
\* suspended calls and timers of the token manager and its AuthService
manager == <<exchangeTask, checkTask, timers, initiateTask>>

vars == <<now, env, localStorage, cookie, href, provider, form, refreshTask,
          manager, probe, last, prev>>

----------------------------------------------------------------------------
(* Bounds *)

MaxNow == 3        \* the clock runs 0 .. MaxNow
MaxSegments == 4   \* longest credential string of the codec run, in segments

----------------------------------------------------------------------------
(* Credential strings *)

NoExp == -1        \* the payload object carries no exp member

\* What a segment is to atob and JSON.parse:
\*   "empty"  the empty string
\*   "bad64"  characters outside the base64 alphabet: atob throws
\*   "text"   base64 of text that is not JSON: JSON.parse throws
\*   "null"   base64 of the JSON literal null
\*   "obj"    base64 of a JSON object; exp is its exp member or NoExp
Seg(kind, exp) == [kind |-> kind, exp |-> exp]

EmptySeg == Seg("empty", NoExp)
Bad64Seg == Seg("bad64", NoExp)
TextSeg == Seg("text", NoExp)
NullSeg == Seg("null", NoExp)
ObjSeg(exp) == Seg("obj", exp)

\* header and signature segments of a well-formed token
HeaderSeg == ObjSeg(NoExp)
SigSeg == Bad64Seg

\* getItem / getCookie answer null for a missing key
NULL == <<>>

EmptyString == <<EmptySeg>>
\* String(undefined), what setItem stores for a missing member
UndefinedString == <<TextSeg>>

Jwt(exp) == <<HeaderSeg, ObjSeg(exp), SigSeg>>

\* JavaScript truthiness of string | null
Truthy(s) == s # NULL /\ s # EmptyString

\* a || b
OrElse(a, b) == IF Truthy(a) THEN a ELSE b

----------------------------------------------------------------------------
(* Credential codec: TokenManager.isTokenExpired *)

\* token.split('.')[1]; NULL stands for undefined
PayloadOf(token) == IF Len(token) >= 2 THEN <<token[2]>> ELSE NULL

\* atob(payload.replace(/-/g, '+').replace(/_/g, '/')) throws
AtobThrows(seg) == seg.kind = "bad64"

\* JSON.parse(text) throws
JsonParseThrows(seg) == seg.kind \in {"empty", "text"}

\* decoded.exp throws a TypeError
ExpReadThrows(seg) == seg.kind = "null"

\* decoded.exp < now; undefined < now is false
ExpBefore(seg, t) == seg.exp # NoExp /\ seg.exp < t

isTokenExpired(token, t) ==
  LET payload == PayloadOf(token) IN
  IF ~Truthy(payload) THEN TRUE
  ELSE IF AtobThrows(payload[1]) THEN TRUE
  ELSE IF JsonParseThrows(payload[1]) THEN TRUE
  ELSE IF ExpReadThrows(payload[1]) THEN TRUE
  ELSE ExpBefore(payload[1], t)

----------------------------------------------------------------------------
(* Dual-backend store *)

ACCESS == "fa_access_token"
REFRESH == "fa_refresh_token"
ID == "fa_id_token"

Keys == {ACCESS, REFRESH, ID}
CookieNames == {ACCESS, REFRESH}

NoTokens == [k \in Keys |-> NULL]
NoCookies == [k \in CookieNames |-> NULL]

\* TokenManager.getTokens
getTokens(ls) ==
  [accessToken |-> ls[ACCESS], refreshToken |-> ls[REFRESH], idToken |-> ls[ID]]

\* TokenManager.setTokens; a missing member is stored as the text undefined
setTokens(tokens) ==
  [k \in Keys |->
     LET v == CASE k = ACCESS -> tokens.access_token
                [] k = REFRESH -> tokens.refresh_token
                [] OTHER -> tokens.id_token
     IN IF v = NULL THEN UndefinedString ELSE v]

\* TokenManager.clearTokens
clearTokens(ls) == NoTokens

\* getCookie(name): the value of the cookie, null when missing or empty
getCookie(jar, name) == IF Truthy(jar[name]) THEN jar[name] ELSE NULL

\* the cookie is tried first in every mode
getTokenFromCookie_cookieFirst(ls, jar, name) ==
  IF dev THEN OrElse(getCookie(jar, name), ls[name]) ELSE getCookie(jar, name)

\* getAccessTokenFromCookie / getRefreshTokenFromCookie
getTokenFromCookie(ls, jar, name) ==
  IF dev THEN OrElse(ls[name], getCookie(jar, name)) ELSE getCookie(jar, name)

getAccessTokenFromCookie(ls, jar) == getTokenFromCookie(ls, jar, ACCESS)
getRefreshTokenFromCookie(ls, jar) == getTokenFromCookie(ls, jar, REFRESH)

\* cookie-generation AuthService.isAuthenticated
CookieIsAuthenticated(ls, jar) ==
  Truthy(getAccessTokenFromCookie(ls, jar)) /\ Truthy(getRefreshTokenFromCookie(ls, jar))

----------------------------------------------------------------------------
(* Token lifecycle manager *)

\* TokenManager.cleanupExpiredTokens: the store it leaves and what it returns
AccessExpired(ls, t) == Truthy(ls[ACCESS]) /\ isTokenExpired(ls[ACCESS], t)
IdExpired(ls, t) == Truthy(ls[ID]) /\ isTokenExpired(ls[ID], t)

\* hasExpired is set for the access credential only
cleanupReturns_accessOnly(ls, t) == AccessExpired(ls, t)

cleanupReturns(ls, t) == AccessExpired(ls, t) \/ IdExpired(ls, t)

\* the access key is tested but never removed
cleanupStore_keepsAccess(ls, t) ==
  [k \in Keys |->
     CASE k = ACCESS -> ls[k]
       [] k = ID -> IF IdExpired(ls, t) THEN NULL ELSE ls[k]
       [] OTHER -> IF cleanupReturns(ls, t) /\ Truthy(ls[REFRESH]) THEN NULL ELSE ls[k]]

\* the refresh key is left alone
cleanupStore_noCascade(ls, t) ==
  [k \in Keys |->
     CASE k = ACCESS -> IF AccessExpired(ls, t) THEN NULL ELSE ls[k]
       [] k = ID -> IF IdExpired(ls, t) THEN NULL ELSE ls[k]
       [] OTHER -> ls[k]]

\* an expired refresh credential is swept on its own account
cleanupStore_sweepsRefresh(ls, t) ==
  [k \in Keys |->
     CASE k = ACCESS -> IF AccessExpired(ls, t) THEN NULL ELSE ls[k]
       [] k = ID -> IF IdExpired(ls, t) THEN NULL ELSE ls[k]
       [] OTHER -> IF Truthy(ls[REFRESH])
                        /\ (cleanupReturns(ls, t) \/ isTokenExpired(ls[REFRESH], t))
                     THEN NULL ELSE ls[k]]

cleanupStore(ls, t) ==
  [k \in Keys |->
     CASE k = ACCESS -> IF AccessExpired(ls, t) THEN NULL ELSE ls[k]
       [] k = ID -> IF IdExpired(ls, t) THEN NULL ELSE ls[k]
       [] OTHER -> IF cleanupReturns(ls, t) /\ Truthy(ls[REFRESH]) THEN NULL ELSE ls[k]]

\* the rule of the cookie generation: access and refresh must both be there
hasValidTokensReturns_needsRefresh(ls, t) ==
  LET tokens == getTokens(cleanupStore(ls, t)) IN
  Truthy(tokens.accessToken) /\ Truthy(tokens.refreshToken)

\* TokenManager.hasValidTokens, evaluated on the store cleanup has left
hasValidTokensReturns(ls, t) ==
  LET tokens == getTokens(cleanupStore(ls, t)) IN
  IF ~Truthy(tokens.accessToken) THEN FALSE
  ELSE ~isTokenExpired(tokens.accessToken, t)

----------------------------------------------------------------------------
(* Values shared by the operations *)

App == "app"                                       \* the application's page
LogoutUrl == "/api/v1/logout"                      \* backend logout endpoint
AcmeUrl == "https://acme.fusionauth.example/oauth" \* a tenant's auth_url
OtherUrl == "https://other.fusionauth.example/oauth"

Undefined == "<undefined>"   \* a member the JSON body does not carry
Null == "<null>"             \* null in a string | null state

Bool(b) == IF b THEN "true" ELSE "false"

\* a || b on string | undefined
OrElseStr(a, b) == IF a # Undefined /\ a # "" THEN a ELSE b

\* op ran on the store pre, issued net requests, and returned or threw val
\* (tok when it returns a credential string)
Call(op, outcome, val, tok, net) ==
  [op |-> op, outcome |-> outcome, val |-> val, tok |-> tok,
   pre |-> localStorage, net |-> net]
Returned(op, val) == Call(op, "return", val, NULL, 0)
ReturnedToken(op, tok) == Call(op, "return", "", tok, 0)
Settled(op, val) == Call(op, "return", val, NULL, 1)
Threw(op, msg) == Call(op, "throw", msg, NULL, 1)
Pending(op) == Call(op, "pending", "", NULL, 1)

Log(call) ==
  /\ last' = call
  /\ prev' = [op |-> last.op, val |-> last.val, bare |-> last.pre = NoTokens]

PageAlive == href = App

\* no checkAuth is running
NoCheck == [pc |-> "idle", exchanges |-> 0]

----------------------------------------------------------------------------
(* Token-manager generation: synchronous helpers of FrontendAuth *)

\* Date.now() moves on
Tick ==
  /\ now < MaxNow
  /\ now' = now + 1
  /\ Log(Returned("tick", ""))
  /\ UNCHANGED <<env, manager, localStorage, cookie, href, provider, form, refreshTask, probe>>

\* FrontendAuth.cleanupExpired -> TokenManager.cleanupExpiredTokens
cleanupExpiredTokens ==
  /\ PageAlive
  /\ localStorage' = cleanupStore(localStorage, now)
  /\ Log(Returned("cleanupExpiredTokens", Bool(cleanupReturns(localStorage, now))))
  /\ UNCHANGED <<now, env, manager, cookie, href, provider, form, refreshTask, probe>>

\* FrontendAuth.isLoggedIn -> TokenManager.hasValidTokens
hasValidTokens ==
  /\ PageAlive
  /\ localStorage' = cleanupStore(localStorage, now)
  /\ Log(Returned("hasValidTokens", Bool(hasValidTokensReturns(localStorage, now))))
  /\ UNCHANGED <<now, env, manager, cookie, href, provider, form, refreshTask, probe>>

\* FrontendAuth.getAccessToken -> TokenManager.getAccessToken
getAccessToken ==
  /\ PageAlive
  /\ localStorage' = cleanupStore(localStorage, now)
  /\ Log(ReturnedToken("getAccessToken", getTokens(cleanupStore(localStorage, now)).accessToken))
  /\ UNCHANGED <<now, env, manager, cookie, href, provider, form, refreshTask, probe>>

----------------------------------------------------------------------------
(* Token-manager generation: AuthService.logout and FrontendAuth.logout *)

\* the store and the location AuthService.logout leaves
logoutStore(ls) == clearTokens(ls)
logoutHref == LogoutUrl

AuthService_logout ==
  /\ PageAlive
  /\ localStorage' = logoutStore(localStorage)
  /\ href' = logoutHref
  /\ Log(Returned("AuthService.logout", ""))
  /\ UNCHANGED <<now, env, manager, cookie, provider, form, refreshTask, probe>>

\* TokenManager.clearTokens(); authService.logout()
FrontendAuth_logout ==
  /\ PageAlive
  /\ localStorage' = logoutStore(clearTokens(localStorage))
  /\ href' = logoutHref
  /\ Log(Returned("FrontendAuth.logout", ""))
  /\ UNCHANGED <<now, env, manager, cookie, provider, form, refreshTask, probe>>

\* The browser comes back to the application after a redirect: a fresh page.
\* The local store survives, component state and pending callbacks do not.
PageLoad ==
  /\ ~PageAlive
  /\ href' = App
  /\ loginLoading' = FALSE
  /\ loginError' = ""
  /\ loginTask' = "idle"
  /\ refreshTask' = "idle"
  /\ Log(Returned("pageLoad", ""))
  /\ exchangeTask' = "idle"
  /\ checkTask' = NoCheck
  /\ timers' = 0
  /\ initiateTask' = "idle"
  /\ UNCHANGED <<now, env, localStorage, cookie, provider, probe>>

----------------------------------------------------------------------------
(* Token-manager generation: AuthService.refreshToken *)

\* members of a token response: fresh, already stale, or missing
ResponseTokens == {Jwt(MaxNow), Jwt(1), NULL}

TokenBody(a, r, i) == [access_token |-> a, refresh_token |-> r, id_token |-> i]
NoBody == TokenBody(NULL, NULL, NULL)

\* what fetch can come back with: a 2xx answer with a JSON body, a 2xx answer
\* whose body is not JSON, a non-2xx answer, or a rejected fetch
TokenResponses ==
  {[kind |-> "ok", tokens |-> TokenBody(a, r, i)] :
     a \in ResponseTokens, r \in ResponseTokens, i \in ResponseTokens}
  \cup {[kind |-> k, tokens |-> NoBody] : k \in {"notjson", "http", "neterr"}}

FullSet(resp) ==
  /\ resp.kind = "ok"
  /\ resp.tokens.access_token # NULL
  /\ resp.tokens.refresh_token # NULL
  /\ resp.tokens.id_token # NULL

\* the guard on the refresh credential is missing
refreshSendsRequest_always(ls) == TRUE

\* if (!tokens.refreshToken) return false, before any fetch
refreshSendsRequest(ls) == Truthy(getTokens(ls).refreshToken)

\* only access and refresh are written, as setTokensInLocalStorage does
refreshStore_twoSlots(ls, resp) ==
  IF resp.kind = "ok"
    THEN [k \in Keys |-> IF k = ID THEN ls[k] ELSE setTokens(resp.tokens)[k]]
    ELSE ls

\* the store refreshToken leaves once fetch has settled with resp
refreshStore(ls, resp) == IF resp.kind = "ok" THEN setTokens(resp.tokens) ELSE ls

\* response.ok is not looked at: every answer of the backend counts
refreshReturns_anyAnswer(resp) == resp.kind # "neterr"

\* what refreshToken resolves to once fetch has settled with resp
refreshReturns(resp) == resp.kind = "ok"

refreshToken_call ==
  /\ PageAlive
  /\ refreshTask = "idle"
  /\ IF refreshSendsRequest(localStorage)
       THEN /\ refreshTask' = "fetch"
            /\ Log(Pending("refreshToken"))
       ELSE /\ refreshTask' = refreshTask
            /\ Log(Returned("refreshToken", "false"))
  /\ UNCHANGED <<now, env, manager, localStorage, cookie, href, provider, form, probe>>

refreshToken_resume(resp) ==
  /\ PageAlive
  /\ refreshTask = "fetch"
  /\ refreshTask' = "idle"
  /\ localStorage' = refreshStore(localStorage, resp)
  /\ Log(Settled("refreshToken", Bool(refreshReturns(resp))))
  /\ UNCHANGED <<now, env, manager, cookie, href, provider, form, probe>>

refreshToken_settled == \E resp \in TokenResponses : refreshToken_resume(resp)

----------------------------------------------------------------------------
(* Token-manager generation: multi-tenant login *)

\* what the user has typed into the email field
Emails == {"", " ", "user@acme.com", " user@acme.com "}

\* String.prototype.trim
trim(e) ==
  CASE e = " " -> ""
    [] e = " user@acme.com " -> "user@acme.com"
    [] OTHER -> e

Messages == {Undefined, "", "unknown domain"}

\* answers of POST /api/v1/login
\*   "ok"      2xx with a JSON body {success, auth_url, company, message}
\*   "http"    non-2xx with a JSON body
\*   "httpraw" non-2xx whose body is not JSON: response.json() rejects
\*   "neterr"  fetch rejects
LoginBody(success, url, company, message) ==
  [success |-> success, auth_url |-> url, company |-> company, message |-> message]

LoginResponses ==
  {[kind |-> "ok", status |-> 200, data |-> LoginBody(TRUE, u, c, Undefined)] :
     u \in {AcmeUrl, OtherUrl}, c \in {"Acme"}}
  \cup {[kind |-> "ok", status |-> 200, data |-> LoginBody(FALSE, Undefined, Undefined, m)] :
     m \in Messages}
  \cup {[kind |-> "http", status |-> st, data |-> LoginBody(FALSE, Undefined, Undefined, m)] :
     st \in {404, 500}, m \in Messages}
  \cup {[kind |-> k, status |-> 0, data |-> LoginBody(FALSE, Undefined, Undefined, Undefined)] :
     k \in {"httpraw", "neterr"}}

\* `Login failed: ${response.status}`
StatusMessage(status) ==
  CASE status = 404 -> "Login failed: 404"
    [] status = 500 -> "Login failed: 500"
    [] OTHER -> "Login failed: 0"

JsonSyntaxError == "Unexpected token < in JSON at position 0"
FetchTypeError == "Failed to fetch"

\* the backend's message is dropped
failurePayloadMessage_fixed(data) == "Login failed"

\* the message of the Error AuthService.initiateLogin throws for a failure payload
failurePayloadMessage(data) == OrElseStr(data.message, "Login failed")

\* resolves with the tenant label instead of the redirect target
initiateLogin_company(resp) ==
  CASE resp.kind = "ok" /\ resp.data.success ->
         [outcome |-> "return", val |-> resp.data.company]
    [] resp.kind = "ok" /\ ~resp.data.success ->
         [outcome |-> "throw", val |-> failurePayloadMessage(resp.data)]
    [] resp.kind = "http" ->
         [outcome |-> "throw", val |-> OrElseStr(resp.data.message, StatusMessage(resp.status))]
    [] resp.kind = "httpraw" ->
         [outcome |-> "throw", val |-> JsonSyntaxError]
    [] OTHER ->
         [outcome |-> "throw", val |-> FetchTypeError]

\* AuthService.initiateLogin once fetch has settled with resp:
\* the value it resolves with or the message of the Error it rejects with
initiateLogin(resp) ==
  CASE resp.kind = "ok" /\ resp.data.success ->
         [outcome |-> "return", val |-> resp.data.auth_url]
    [] resp.kind = "ok" /\ ~resp.data.success ->
         [outcome |-> "throw", val |-> failurePayloadMessage(resp.data)]
    [] resp.kind = "http" ->
         [outcome |-> "throw", val |-> OrElseStr(resp.data.message, StatusMessage(resp.status))]
    [] resp.kind = "httpraw" ->
         [outcome |-> "throw", val |-> JsonSyntaxError]
    [] OTHER ->
         [outcome |-> "throw", val |-> FetchTypeError]

\* AuthProvider.initiateLogin of the token-manager generation: awaits
\* authService.initiateLogin, lets a rejection through and sends the browser
\* to the auth_url (authService.login)
AuthProvider_initiateLogin(resp) ==
  LET r == initiateLogin(resp) IN
  [outcome |-> r.outcome, val |-> r.val,
   href |-> IF r.outcome = "return" THEN r.val ELSE App]

\* catch (error) { setLoginError(error instanceof Error ? error.message : 'Login failed') }
caughtLoginError(r) == r.val

\* setLoginLoading(false) is missing from the catch block
caughtLoginLoading_stuck(r) == TRUE

\* catch (error) { ...; setLoginLoading(false) }
caughtLoginLoading(r) == FALSE

\* Navigation.handleLoginSubmit / Home.handleLoginSubmit up to the await;
\* the form's controls are disabled while loginLoading
handleLoginSubmit_call(email) ==
  /\ PageAlive
  /\ ~loginLoading
  /\ loginTask = "idle"
  /\ IF trim(email) = ""
       THEN /\ UNCHANGED <<form>>
            /\ Log(Returned("handleLoginSubmit", ""))
       ELSE /\ loginLoading' = TRUE
            /\ loginError' = ""
            /\ loginTask' = "fetch"
            /\ Log(Pending("initiateLogin"))
  /\ UNCHANGED <<now, env, manager, localStorage, cookie, href, provider, refreshTask, probe>>

\* handleLoginSubmit from the await on
handleLoginSubmit_resume(resp) ==
  /\ PageAlive
  /\ loginTask = "fetch"
  /\ loginTask' = "idle"
  /\ LET r == AuthProvider_initiateLogin(resp) IN
       /\ href' = r.href
       /\ IF r.outcome = "throw"
            THEN /\ loginError' = caughtLoginError(r)
                 /\ loginLoading' = caughtLoginLoading(r)
                 /\ Log(Threw("initiateLogin", r.val))
            ELSE /\ UNCHANGED <<loginError, loginLoading>>
                 /\ Log(Settled("initiateLogin", r.val))
  /\ UNCHANGED <<now, env, manager, localStorage, cookie, provider, refreshTask, probe>>

handleLoginSubmit == \E email \in Emails : handleLoginSubmit_call(email)
handleLoginSubmit_settled == \E resp \in LoginResponses : handleLoginSubmit_resume(resp)

----------------------------------------------------------------------------
(* Specification of the token-manager generation *)

\* credential strings the local store may hold when the page loads
StoredTokens == {NULL, Jwt(1), Jwt(2), UndefinedString, EmptyString}

Init ==
  /\ now = 0
  /\ dev = TRUE
  /\ localStorage \in [Keys -> StoredTokens]
  /\ cookie = NoCookies
  /\ href = App
  /\ user = Null
  /\ isLoading = TRUE
  /\ error = Null
  /\ loginLoading = FALSE
  /\ loginError = ""
  /\ loginTask = "idle"
  /\ refreshTask = "idle"
  /\ logoutTask = "idle"
  /\ loadTask = "idle"
  /\ refetchTask = "idle"
  /\ envDev = TRUE
  /\ search = FALSE
  /\ probe = [token |-> NULL, verdict |-> "none"]
  /\ exchangeTask = "idle"
  /\ checkTask = NoCheck
  /\ timers = 0
  /\ initiateTask = "idle"
  /\ last = Returned("init", "")
  /\ prev = [op |-> "init", val |-> "", bare |-> FALSE]

Next ==
  \/ Tick
  \/ cleanupExpiredTokens
  \/ hasValidTokens
  \/ getAccessToken
  \/ AuthService_logout
  \/ FrontendAuth_logout
  \/ PageLoad
  \/ refreshToken_call
  \/ refreshToken_settled

Spec == Init /\ [][Next]_vars

----------------------------------------------------------------------------
(* Specification of the login form, next to a store that is being swept *)

NextLogin ==
  \/ Tick
  \/ cleanupExpiredTokens
  \/ PageLoad
  \/ handleLoginSubmit
  \/ handleLoginSubmit_settled

SpecLogin == Init /\ [][NextLogin]_vars

----------------------------------------------------------------------------
(* Specification of the credential codec: isTokenExpired on every string *)

\* the second member of a payload object: early, late, or none
ExpValues == {1, MaxNow, NoExp}

Segments ==
  {EmptySeg, Bad64Seg, TextSeg, NullSeg} \cup {ObjSeg(e) : e \in ExpValues}

RECURSIVE StringsOfLength(_)
StringsOfLength(n) ==
  IF n = 1 THEN {<<g>> : g \in Segments}
  ELSE {Append(w, g) : w \in StringsOfLength(n - 1), g \in Segments}

\* every string of at most MaxSegments dot-delimited segments
CredentialStrings == UNION {StringsOfLength(n) : n \in 1..MaxSegments}

InitCodec ==
  /\ now \in 0..MaxNow
  /\ dev = TRUE
  /\ localStorage = NoTokens
  /\ cookie = NoCookies
  /\ href = App
  /\ user = Null
  /\ isLoading = TRUE
  /\ error = Null
  /\ loginLoading = FALSE
  /\ loginError = ""
  /\ loginTask = "idle"
  /\ refreshTask = "idle"
  /\ logoutTask = "idle"
  /\ loadTask = "idle"
  /\ refetchTask = "idle"
  /\ envDev = TRUE
  /\ search = FALSE
  /\ probe \in {[token |-> w, verdict |-> "none"] : w \in CredentialStrings}
  /\ exchangeTask = "idle"
  /\ checkTask = NoCheck
  /\ timers = 0
  /\ initiateTask = "idle"
  /\ last = Returned("init", "")
  /\ prev = [op |-> "init", val |-> "", bare |-> FALSE]

\* TokenManager.isTokenExpired(token) at the clock reading now
isTokenExpired_run ==
  /\ probe.verdict = "none"
  /\ probe' = [probe EXCEPT !.verdict = Bool(isTokenExpired(probe.token, now))]
  /\ Log(Returned("isTokenExpired", Bool(isTokenExpired(probe.token, now))))
  /\ UNCHANGED <<now, env, manager, localStorage, cookie, href, provider, form, refreshTask>>

NextCodec == isTokenExpired_run

SpecCodec == InitCodec /\ [][NextCodec]_vars

----------------------------------------------------------------------------
(* Cookie generation: AuthService (axios) and AuthProvider *)

LoginUrl == "/api/v1/login"

\* the profile GET /api/v1/me answers with
Alice == "alice"

LoadErrorText == "Failed to load user information"
LogoutErrorText == "Logout failed. Please try again."

\* an axios call resolves on 2xx and rejects on anything else
AxiosOutcomes == {"ok", "http", "neterr"}

\* setTokensInLocalStorage(accessToken, refreshToken)
setTokensInLocalStorage(ls, accessToken, refreshToken) ==
  IF dev
    THEN [ls EXCEPT ![ACCESS] = accessToken, ![REFRESH] = refreshToken]
    ELSE ls

\* clearTokensFromLocalStorage()
clearTokensFromLocalStorage(ls) ==
  IF dev
    THEN [ls EXCEPT ![ACCESS] = NULL, ![REFRESH] = NULL]
    ELSE ls

\* handlePostLoginTokenExchange: if (tokens.access_token && tokens.refresh_token)
exchangeHasTokens(resp) ==
  /\ resp.kind = "ok"
  /\ Truthy(resp.tokens.access_token)
  /\ Truthy(resp.tokens.refresh_token)

\* the finally block is missing: isLoading is left as it is
loadUser_finishesLoggedOut_noFinally ==
  /\ user' = Null
  /\ isLoading' = isLoading
  /\ loadTask' = "idle"
  /\ Log(Returned("loadUser", Null))

\* loadUser falls through to setUser(null) and, in finally, setIsLoading(false)
loadUser_finishesLoggedOut ==
  /\ user' = Null
  /\ isLoading' = FALSE
  /\ loadTask' = "idle"
  /\ Log(Returned("loadUser", Null))

\* AuthProvider.loadUser up to its first await; run by the mount effect and
\* by refetchUser
loadUser ==
  /\ PageAlive
  /\ loadTask \in {"mount", "idle"}
  /\ IF CookieIsAuthenticated(localStorage, cookie)
       THEN /\ isLoading' = TRUE
            /\ error' = Null
            /\ loadTask' = "me"
            /\ Log(Pending("loadUser"))
            /\ UNCHANGED <<user, search>>
       ELSE IF envDev /\ search
         THEN /\ search' = FALSE
              /\ IF dev
                   THEN /\ isLoading' = TRUE
                        /\ error' = Null
                        /\ loadTask' = "tokens"
                        /\ Log(Pending("loadUser"))
                        /\ UNCHANGED user
                   ELSE /\ loadUser_finishesLoggedOut
                        /\ error' = Null
         ELSE /\ loadUser_finishesLoggedOut
              /\ error' = Null
              /\ UNCHANGED search
  /\ UNCHANGED <<refetchTask, now, env, manager, localStorage, cookie, href, logoutTask, form, refreshTask, probe>>

\* loadUser resumes after await authService.handlePostLoginTokenExchange()
loadUser_tokens(resp) ==
  /\ PageAlive
  /\ loadTask = "tokens"
  /\ IF exchangeHasTokens(resp)
       THEN /\ localStorage' = setTokensInLocalStorage(localStorage,
                                 resp.tokens.access_token, resp.tokens.refresh_token)
            /\ loadTask' = "me"
            /\ Log(Pending("loadUser"))
            /\ UNCHANGED <<user, isLoading, error>>
       ELSE /\ loadUser_finishesLoggedOut
            /\ UNCHANGED <<localStorage, error>>
  /\ UNCHANGED <<refetchTask, now, env, manager, cookie, href, logoutTask, search, form, refreshTask, probe>>

\* loadUser resumes after await authService.getCurrentUser()
loadUser_me(outcome) ==
  /\ PageAlive
  /\ loadTask = "me"
  /\ loadTask' = "idle"
  /\ isLoading' = FALSE
  /\ IF outcome = "ok"
       THEN /\ user' = Alice
            /\ UNCHANGED error
            /\ Log(Settled("loadUser", Alice))
       ELSE /\ user' = Null
            /\ error' = LoadErrorText
            /\ Log(Settled("loadUser", Null))
  /\ UNCHANGED <<refetchTask, now, env, manager, localStorage, cookie, href, logoutTask, search, form, refreshTask, probe>>

loadUser_tokens_settled == \E resp \in TokenResponses : loadUser_tokens(resp)
loadUser_me_settled == \E outcome \in AxiosOutcomes : loadUser_me(outcome)

\* the second loadUser falls through to setUser(null) and setIsLoading(false)
refetchUser_finishesLoggedOut ==
  /\ user' = Null
  /\ isLoading' = FALSE
  /\ refetchTask' = "idle"
  /\ Log(Returned("refetchUser", Null))

\* AuthProvider.refetchUser: await loadUser(), callable while the loadUser of
\* the mount effect is still suspended; up to its first await
refetchUser ==
  /\ PageAlive
  /\ loadTask # "mount"
  /\ refetchTask = "idle"
  /\ IF CookieIsAuthenticated(localStorage, cookie)
       THEN /\ isLoading' = TRUE
            /\ error' = Null
            /\ refetchTask' = "me"
            /\ Log(Pending("refetchUser"))
            /\ UNCHANGED <<user, search>>
       ELSE IF envDev /\ search
         THEN /\ search' = FALSE
              /\ IF dev
                   THEN /\ isLoading' = TRUE
                        /\ error' = Null
                        /\ refetchTask' = "tokens"
                        /\ Log(Pending("refetchUser"))
                        /\ UNCHANGED user
                   ELSE /\ refetchUser_finishesLoggedOut
                        /\ error' = Null
         ELSE /\ refetchUser_finishesLoggedOut
              /\ error' = Null
              /\ UNCHANGED search
  /\ UNCHANGED <<loadTask, now, env, manager, localStorage, cookie, href, logoutTask,
                 form, refreshTask, probe>>

\* the second loadUser resumes after await handlePostLoginTokenExchange()
refetchUser_tokens(resp) ==
  /\ PageAlive
  /\ refetchTask = "tokens"
  /\ IF exchangeHasTokens(resp)
       THEN /\ localStorage' = setTokensInLocalStorage(localStorage,
                                 resp.tokens.access_token, resp.tokens.refresh_token)
            /\ refetchTask' = "me"
            /\ Log(Pending("refetchUser"))
            /\ UNCHANGED <<user, isLoading, error>>
       ELSE /\ refetchUser_finishesLoggedOut
            /\ UNCHANGED <<localStorage, error>>
  /\ UNCHANGED <<loadTask, now, env, manager, cookie, href, logoutTask, search, form,
                 refreshTask, probe>>

\* the second loadUser resumes after await authService.getCurrentUser()
refetchUser_me(outcome) ==
  /\ PageAlive
  /\ refetchTask = "me"
  /\ refetchTask' = "idle"
  /\ isLoading' = FALSE
  /\ IF outcome = "ok"
       THEN /\ user' = Alice
            /\ UNCHANGED error
            /\ Log(Settled("refetchUser", Alice))
       ELSE /\ user' = Null
            /\ error' = LoadErrorText
            /\ Log(Settled("refetchUser", Null))
  /\ UNCHANGED <<loadTask, now, env, manager, localStorage, cookie, href, logoutTask,
                 search, form, refreshTask, probe>>

refetchUser_tokens_settled == \E resp \in TokenResponses : refetchUser_tokens(resp)
refetchUser_me_settled == \E outcome \in AxiosOutcomes : refetchUser_me(outcome)

\* AuthProvider.login: window.location.href = loginUrl
AuthProvider_login ==
  /\ PageAlive
  /\ loadTask # "mount"
  /\ error' = Null
  /\ href' = LoginUrl
  /\ Log(Returned("AuthProvider.login", ""))
  /\ UNCHANGED <<refetchTask, now, env, manager, localStorage, cookie, user, isLoading, logoutTask, loadTask,
                 search, form, refreshTask, probe>>

\* AuthProvider.logout up to await authService.logout(redirectUri)
AuthProvider_logout ==
  /\ PageAlive
  /\ loadTask # "mount"
  /\ logoutTask = "idle"
  /\ error' = Null
  /\ logoutTask' = "post"
  /\ Log(Pending("AuthProvider.logout"))
  /\ UNCHANGED <<refetchTask, now, env, manager, localStorage, cookie, href, user, isLoading, loadTask,
                 search, form, refreshTask, probe>>

\* what the POST /api/v1/logout answer does to the cookie jar: a 2xx answer
\* carries the Set-Cookie headers that expire the session cookies
logoutCookies(jar, outcome) == IF outcome = "ok" THEN NoCookies ELSE jar

\* AuthProvider.logout from the await on: setUser(null), or the catch branch
AuthProvider_logout_resume(outcome) ==
  /\ PageAlive
  /\ logoutTask = "post"
  /\ logoutTask' = "idle"
  /\ cookie' = logoutCookies(cookie, outcome)
  /\ IF outcome = "ok"
       THEN /\ user' = Null
            /\ UNCHANGED error
            /\ Log(Settled("AuthProvider.logout", "done"))
       ELSE /\ error' = LogoutErrorText
            /\ UNCHANGED user
            /\ Log(Settled("AuthProvider.logout", "failed"))
  /\ UNCHANGED <<refetchTask, now, env, manager, localStorage, href, isLoading, loadTask, search, form,
                 refreshTask, probe>>

AuthProvider_logout_settled == \E outcome \in AxiosOutcomes : AuthProvider_logout_resume(outcome)

\* AuthService.clearLocalAuth: the local store keys and both cookies
clearLocalAuth ==
  /\ PageAlive
  /\ loadTask # "mount"
  /\ localStorage' = clearTokensFromLocalStorage(localStorage)
  /\ cookie' = NoCookies
  /\ Log(Returned("clearLocalAuth", ""))
  /\ UNCHANGED <<now, env, manager, href, provider, form, refreshTask, probe>>

\* cookie values the backend hands out with its redirect back to the page
BackendCookies == {NoCookies} \cup {[k \in CookieNames |-> Jwt(MaxNow)]}

\* The browser comes back from the login redirect: a fresh page, a freshly
\* constructed AuthProvider whose mount effect is about to run.
CookiePageLoad ==
  /\ ~PageAlive
  /\ href' = App
  /\ user' = Null
  /\ isLoading' = TRUE
  /\ error' = Null
  /\ logoutTask' = "idle"
  /\ loadTask' = "mount"
  /\ refetchTask' = "idle"
  /\ search' \in BOOLEAN
  /\ cookie' \in BackendCookies
  /\ Log(Returned("pageLoad", ""))
  /\ UNCHANGED <<now, env, manager, localStorage, form, refreshTask, probe>>

\* the loading test is missing: the children show while loadUser is running
ProtectedRoute_noLoadingTest(loading, authenticated) ==
  IF ~authenticated THEN "login" ELSE "children"

\* ProtectedRoute: what it renders for the isLoading and isAuthenticated
\* useAuth() hands it
ProtectedRoute(loading, authenticated) ==
  IF loading THEN "loading"
  ELSE IF ~authenticated THEN "login"
  ELSE "children"

\* React renders ProtectedRoute under the AuthProvider
ProtectedRoute_render ==
  /\ PageAlive
  /\ Log(Returned("ProtectedRoute",
                  ProtectedRoute(isLoading, CookieIsAuthenticated(localStorage, cookie))))
  /\ UNCHANGED <<now, env, manager, localStorage, cookie, href, provider, form,
                 refreshTask, probe>>

\* what the local store may hold from an earlier visit
CookieStores ==
  {[k \in Keys |-> IF k = ID THEN NULL ELSE t[k]] :
     t \in [{ACCESS, REFRESH} -> {NULL, Jwt(1), Jwt(MaxNow)}]}

InitCookie ==
  /\ now = 0
  /\ dev \in BOOLEAN
  /\ envDev \in BOOLEAN
  /\ dev => envDev
  /\ localStorage \in CookieStores
  /\ cookie \in BackendCookies
  /\ href = App
  /\ user = Null
  /\ isLoading = TRUE
  /\ error = Null
  /\ loginLoading = FALSE
  /\ loginError = ""
  /\ loginTask = "idle"
  /\ refreshTask = "idle"
  /\ logoutTask = "idle"
  /\ loadTask = "mount"
  /\ refetchTask = "idle"
  /\ search \in BOOLEAN
  /\ probe = [token |-> NULL, verdict |-> "none"]
  /\ exchangeTask = "idle"
  /\ checkTask = NoCheck
  /\ timers = 0
  /\ initiateTask = "idle"
  /\ last = Returned("init", "")
  /\ prev = [op |-> "init", val |-> "", bare |-> FALSE]

NextCookie ==
  \/ Tick
  \/ loadUser
  \/ loadUser_tokens_settled
  \/ loadUser_me_settled
  \/ AuthProvider_login
  \/ AuthProvider_logout
  \/ AuthProvider_logout_settled
  \/ clearLocalAuth
  \/ ProtectedRoute_render
  \/ CookiePageLoad

SpecCookie == InitCookie /\ [][NextCookie]_vars

\* the AuthProvider with a consumer that calls refetchUser
NextRefetch ==
  \/ loadUser
  \/ loadUser_tokens_settled
  \/ loadUser_me_settled
  \/ refetchUser
  \/ refetchUser_tokens_settled
  \/ refetchUser_me_settled
  \/ clearLocalAuth

SpecRefetch == InitCookie /\ [][NextRefetch]_vars

\* AuthService.getAccessToken / getRefreshToken of the cookie generation,
\* as the AuthProvider calls them on every render
getTokenFromCookie_read(name) ==
  /\ PageAlive
  /\ Log(Call("getTokenFromCookie", "return", name,
              getTokenFromCookie(localStorage, cookie, name), 0))
  /\ UNCHANGED <<now, env, manager, localStorage, cookie, href, provider, form,
                 refreshTask, probe>>

getTokenFromCookie_reads == \E name \in CookieNames : getTokenFromCookie_read(name)

NextBackend ==
  \/ getTokenFromCookie_reads
  \/ loadUser
  \/ loadUser_tokens_settled
  \/ loadUser_me_settled
  \/ clearLocalAuth

SpecBackend == InitCookie /\ [][NextBackend]_vars

\* React runs the mount effect, and every request loadUser awaits is
\* answered or fails
SpecCookieFair ==
  /\ SpecCookie
  /\ WF_vars(loadTask = "mount" /\ loadUser)
  /\ WF_vars(loadUser_tokens_settled)
  /\ WF_vars(loadUser_me_settled)

----------------------------------------------------------------------------
(* Token-manager generation: the exchange of the session cookies,          *)
(* AuthService.initializeTokens and AuthService.checkAuth                  *)

MaxExchanges == 2   \* exchange requests one checkAuth is followed through

\* the profile checkAuth builds from the claims of the identity credential
TokenProfile == "profile of the identity token"

\* GET /api/v1/me: a 2xx answer with the profile, a non-2xx answer, no answer
MeOutcomes == {"ok", "http", "neterr"}

\* TokenManager.getUserInfoFromToken: the decoded claims, or null
getUserInfoFromToken(ls, t) ==
  LET idToken == getTokens(cleanupStore(ls, t)).idToken
      payload == PayloadOf(idToken)
  IN IF ~Truthy(idToken) THEN Null
     ELSE IF ~Truthy(payload) THEN Null
     ELSE IF AtobThrows(payload[1]) THEN Null
     ELSE IF JsonParseThrows(payload[1]) THEN Null
     ELSE IF payload[1].kind = "null" THEN Null
     ELSE TokenProfile

\* only the access credential of the answer is stored
exchangeStore_accessOnly(ls, resp) ==
  IF resp.kind = "ok"
    THEN [ls EXCEPT ![ACCESS] = setTokens(resp.tokens)[ACCESS]]
    ELSE ls

\* the answer of the exchange endpoint is read and thrown away
exchangeStore_discards(ls, resp) == ls

\* the store exchangeCookiesForTokens leaves once fetch has settled with resp
exchangeStore(ls, resp) == IF resp.kind = "ok" THEN setTokens(resp.tokens) ELSE ls

\* what exchangeCookiesForTokens resolves to
exchangeReturns(resp) == resp.kind = "ok"

\* FrontendAuth.initialize -> AuthService.initializeTokens
initializeTokens_call ==
  /\ PageAlive
  /\ exchangeTask = "idle"
  /\ exchangeTask' = "fetch"
  /\ Log(Pending("exchangeCookiesForTokens"))
  /\ UNCHANGED <<now, env, localStorage, cookie, href, provider, form, refreshTask,
                 checkTask, timers, initiateTask, probe>>

initializeTokens_resume(resp) ==
  /\ PageAlive
  /\ exchangeTask = "fetch"
  /\ exchangeTask' = "idle"
  /\ localStorage' = exchangeStore(localStorage, resp)
  /\ Log(Settled("exchangeCookiesForTokens", Bool(exchangeReturns(resp))))
  /\ UNCHANGED <<now, env, cookie, href, provider, form, refreshTask,
                 checkTask, timers, initiateTask, probe>>

initializeTokens_settled == \E resp \in TokenResponses : initializeTokens_resume(resp)

\* the head of checkAuth: hasValidTokens, then getUserInfoFromToken; both
\* run the cleanup
checkAuthStore(ls, t) ==
  IF hasValidTokensReturns(ls, t)
    THEN cleanupStore(cleanupStore(ls, t), t)
    ELSE cleanupStore(ls, t)

\* the profile the head of checkAuth returns, null when it goes on
checkAuthLocal(ls, t) ==
  IF hasValidTokensReturns(ls, t)
    THEN getUserInfoFromToken(cleanupStore(ls, t), t)
    ELSE Null

\* the head of checkAuth, entered with n exchange requests behind it
checkAuth_head(ls, n) ==
  /\ localStorage' = checkAuthStore(ls, now)
  /\ IF checkAuthLocal(ls, now) # Null
       THEN /\ checkTask' = NoCheck
            /\ Log(Call("checkAuth", "return", checkAuthLocal(ls, now), NULL, n))
       ELSE /\ n < MaxExchanges
            /\ checkTask' = [pc |-> "exchange", exchanges |-> n + 1]
            /\ Log(Call("checkAuth", "pending", "", NULL, n + 1))

checkAuth_call ==
  /\ PageAlive
  /\ checkTask.pc = "idle"
  /\ checkAuth_head(localStorage, 0)
  /\ UNCHANGED <<now, env, cookie, href, provider, form, refreshTask,
                 exchangeTask, timers, initiateTask, probe>>

\* exchangeCookiesForTokens has settled: checkAuth calls itself on true and
\* goes to GET /api/v1/me on false
checkAuth_exchange(resp) ==
  /\ PageAlive
  /\ checkTask.pc = "exchange"
  /\ IF exchangeReturns(resp)
       THEN checkAuth_head(exchangeStore(localStorage, resp), checkTask.exchanges)
       ELSE /\ localStorage' = exchangeStore(localStorage, resp)
            /\ checkTask' = [checkTask EXCEPT !.pc = "me"]
            /\ Log(Call("checkAuth", "pending", "", NULL, checkTask.exchanges + 1))
  /\ UNCHANGED <<now, env, cookie, href, provider, form, refreshTask,
                 exchangeTask, timers, initiateTask, probe>>

checkAuth_exchange_settled == \E resp \in TokenResponses : checkAuth_exchange(resp)

\* the fallback: the profile of a 2xx answer, null otherwise
checkAuth_me(outcome) ==
  /\ PageAlive
  /\ checkTask.pc = "me"
  /\ checkTask' = NoCheck
  /\ Log(Call("checkAuth", "return", IF outcome = "ok" THEN Alice ELSE Null,
              NULL, checkTask.exchanges + 1))
  /\ UNCHANGED <<now, env, localStorage, cookie, href, provider, form, refreshTask,
                 exchangeTask, timers, initiateTask, probe>>

checkAuth_me_settled == \E outcome \in MeOutcomes : checkAuth_me(outcome)

\* what the local store may hold when the page loads: credentials of an
\* earlier visit, some of them swept since
SessionStores == [Keys -> {NULL, Jwt(1)}]

InitSession ==
  /\ now = 0
  /\ dev = TRUE
  /\ envDev = TRUE
  /\ localStorage \in SessionStores
  /\ cookie = NoCookies
  /\ href = App
  /\ user = Null
  /\ isLoading = TRUE
  /\ error = Null
  /\ loginLoading = FALSE
  /\ loginError = ""
  /\ loginTask = "idle"
  /\ refreshTask = "idle"
  /\ logoutTask = "idle"
  /\ loadTask = "idle"
  /\ refetchTask = "idle"
  /\ search = FALSE
  /\ probe = [token |-> NULL, verdict |-> "none"]
  /\ exchangeTask = "idle"
  /\ checkTask = NoCheck
  /\ timers = 0
  /\ initiateTask = "idle"
  /\ last = Returned("init", "")
  /\ prev = [op |-> "init", val |-> "", bare |-> FALSE]

NextSession ==
  \/ Tick
  \/ hasValidTokens
  \/ initializeTokens_call
  \/ initializeTokens_settled
  \/ checkAuth_call
  \/ checkAuth_exchange_settled
  \/ checkAuth_me_settled

SpecSession == InitSession /\ [][NextSession]_vars

----------------------------------------------------------------------------
(* Token-manager generation: the periodic sweep *)

MaxTimers == 2   \* calls of startCleanupInterval one document is followed through

\* FrontendAuth.startAutoCleanup -> TokenManager.startCleanupInterval:
\* setInterval registers one more repeating timer; the id it returns is
\* dropped
startCleanupInterval ==
  /\ PageAlive
  /\ timers < MaxTimers
  /\ timers' = timers + 1
  /\ Log(Returned("startCleanupInterval", ""))
  /\ UNCHANGED <<now, env, localStorage, cookie, href, provider, form, refreshTask,
                 exchangeTask, checkTask, initiateTask, probe>>

\* a registered timer comes due: () => this.cleanupExpiredTokens().
\* Assigning window.location.href only starts a navigation; the document and
\* its timers stay until the next page is loaded.
cleanupInterval_fires ==
  /\ timers > 0
  /\ localStorage' = cleanupStore(localStorage, now)
  /\ Log(Returned("cleanupInterval", Bool(cleanupReturns(localStorage, now))))
  /\ UNCHANGED <<now, env, cookie, href, provider, form, refreshTask, manager, probe>>

NextSweep ==
  \/ Tick
  \/ startCleanupInterval
  \/ cleanupInterval_fires
  \/ AuthService_logout
  \/ FrontendAuth_logout
  \/ PageLoad

SpecSweep == InitSession /\ [][NextSweep]_vars

----------------------------------------------------------------------------
(* Token-manager generation: FrontendAuth.initiateLogin called directly *)

\* FrontendAuth.initiateLogin(email) -> authService.initiateLogin(email),
\* up to the await of fetch: the URL is built and the request sent for
\* every email
FrontendAuth_initiateLogin_call(email) ==
  /\ PageAlive
  /\ initiateTask = "idle"
  /\ initiateTask' = "fetch"
  /\ Log(Call("FrontendAuth.initiateLogin", "pending", email, NULL, 1))
  /\ UNCHANGED <<now, env, localStorage, cookie, href, provider, form, refreshTask,
                 exchangeTask, checkTask, timers, probe>>

\* the fetch has settled: the promise resolves with the body or rejects
FrontendAuth_initiateLogin_resume(resp) ==
  /\ PageAlive
  /\ initiateTask = "fetch"
  /\ initiateTask' = "idle"
  /\ LET r == initiateLogin(resp) IN
       Log(Call("FrontendAuth.initiateLogin", r.outcome, r.val, NULL, 1))
  /\ UNCHANGED <<now, env, localStorage, cookie, href, provider, form, refreshTask,
                 exchangeTask, checkTask, timers, probe>>

FrontendAuth_initiateLogin == \E email \in Emails : FrontendAuth_initiateLogin_call(email)
FrontendAuth_initiateLogin_settled ==
  \E resp \in LoginResponses : FrontendAuth_initiateLogin_resume(resp)

NextInitiate ==
  \/ FrontendAuth_initiateLogin
  \/ FrontendAuth_initiateLogin_settled
  \/ handleLoginSubmit
  \/ handleLoginSubmit_settled
  \/ PageLoad

SpecInitiate == InitSession /\ [][NextInitiate]_vars

----------------------------------------------------------------------------
(* Token-manager generation: exchange, refresh and sweep side by side *)

NextConcurrent ==
  \/ Tick
  \/ refreshToken_call
  \/ refreshToken_settled
  \/ initializeTokens_call
  \/ initializeTokens_settled
  \/ startCleanupInterval
  \/ cleanupInterval_fires

SpecConcurrent == InitSession /\ [][NextConcurrent]_vars

----------------------------------------------------------------------------
(* Token-manager generation: the API client *)

\* the store is read as it is, without the cleanup
bearerToken_noCleanup(ls, t) == getTokens(ls).accessToken

\* const token = TokenManager.getAccessToken(): the access credential the
\* cleanup has left, null when there is none
bearerToken(ls, t) == getTokens(cleanupStore(ls, t)).accessToken

\* the request interceptor of the axios instance: a request goes out, with
\* the Authorization header when the token is truthy
axiosRequest ==
  /\ PageAlive
  /\ localStorage' = cleanupStore(localStorage, now)
  /\ LET token == bearerToken(localStorage, now) IN
       Log(Call("api.request", "return", Bool(Truthy(token)),
                IF Truthy(token) THEN token ELSE NULL, 1))
  /\ UNCHANGED <<now, env, cookie, href, provider, form, refreshTask, manager, probe>>

\* AuthService.apiCall: throws without a token, else fetch with the header
apiCall ==
  /\ PageAlive
  /\ localStorage' = cleanupStore(localStorage, now)
  /\ LET token == bearerToken(localStorage, now) IN
       IF ~Truthy(token)
         THEN Log(Call("apiCall", "throw", "No access token available", NULL, 0))
         ELSE Log(Call("apiCall", "return", "true", token, 1))
  /\ UNCHANGED <<now, env, cookie, href, provider, form, refreshTask, manager, probe>>

\* the statuses the backend answers an API request with
ApiStatuses == {"200", "401"}

\* the answer to the request: the axios instance has no response interceptor,
\* so its promise rejects on 401 and resolves on 200; fetch resolves on both
apiResponse(status) ==
  /\ PageAlive
  /\ last.op \in {"api.request", "apiCall"}
  /\ last.net = 1
  /\ Log(Call("api.response",
              IF last.op = "api.request" /\ status = "401" THEN "throw" ELSE "return",
              status, NULL, 0))
  /\ UNCHANGED <<now, env, localStorage, cookie, href, provider, form,
                 refreshTask, manager, probe>>

apiResponse_settled == \E status \in ApiStatuses : apiResponse(status)

NextApi ==
  \/ Tick
  \/ axiosRequest
  \/ apiCall
  \/ apiResponse_settled
  \/ initializeTokens_call
  \/ initializeTokens_settled

SpecApi == Init /\ [][NextApi]_vars

----------------------------------------------------------------------------
(* Properties of the periodic sweep (SpecSweep) *)

\* C13: startCleanupInterval is idempotent: after any number of start
\* calls, at most one repeating cleanup timer is active.
C13_OneTimer == timers <= 1

\* a logout has run in this document
LoggedOut == href = LogoutUrl

\* C14: the periodic sweep is cancellable: once it has been cancelled, as on
\* logout, no further cleanup callback runs.
C14_NoSweepAfterLogout == [][LoggedOut => ~cleanupInterval_fires]_vars

----------------------------------------------------------------------------
(* Properties of the session initialization (SpecSession) *)

\* the exchange endpoint answers 200 with three credentials, none of them
\* expired at t
ValidSet(resp, t) ==
  /\ FullSet(resp)
  /\ ~isTokenExpired(resp.tokens.access_token, t)
  /\ ~isTokenExpired(resp.tokens.refresh_token, t)
  /\ ~isTokenExpired(resp.tokens.id_token, t)

\* C12: session reconciliation.  Starting with no credentials, once the
\* exchange endpoint has returned a valid (unexpired) Credential Set and the
\* exchange has completed (it resolves to true and the store holds that
\* set), a hasValidTokens that follows returns true.
C12_Reconciliation ==
  [][/\ \A resp \in TokenResponses :
          (/\ initializeTokens_resume(resp)
           /\ localStorage = NoTokens
           /\ ValidSet(resp, now))
            => /\ last'.val = "true"
               /\ localStorage'[ACCESS] = resp.tokens.access_token
               /\ localStorage'[REFRESH] = resp.tokens.refresh_token
               /\ localStorage'[ID] = resp.tokens.id_token
     /\ (/\ last.op = "exchangeCookiesForTokens"
         /\ last.val = "true"
         /\ last.pre = NoTokens
         /\ \A k \in Keys : ~isTokenExpired(localStorage[k], now)
         /\ hasValidTokens)
          => last'.val = "true"]_vars

\* hasValidTokens answered true right after an exchange that found the
\* store bare and resolved to true
C12_Witness ==
  /\ last.op = "hasValidTokens"
  /\ last.val = "true"
  /\ prev.op = "exchangeCookiesForTokens"
  /\ prev.val = "true"
  /\ prev.bare
  /\ \A k \in Keys : ~isTokenExpired(localStorage[k], now)

----------------------------------------------------------------------------
(* Properties of the token lifecycle manager (Spec) *)

\* a step that runs TokenManager.cleanupExpiredTokens, directly or as the
\* first statement of hasValidTokens / getAccessToken
RunsCleanup == cleanupExpiredTokens \/ hasValidTokens \/ getAccessToken

\* C2: cleanupExpiredTokens is idempotent. When it is called twice in a row,
\* nothing else happening in between, the second call returns false and
\* leaves the store exactly as the first call left it.
C2_CleanupIdempotent ==
  [][(last.op = "cleanupExpiredTokens" /\ cleanupExpiredTokens)
       => (last'.val = "false" /\ localStorage' = localStorage)]_vars

\* the second of two consecutive calls has returned false after the first
\* one had removed something
C2_Witness ==
  /\ prev.op = "cleanupExpiredTokens"
  /\ prev.val = "true"
  /\ last.op = "cleanupExpiredTokens"
  /\ last.val = "false"

\* C3: cascade policy. If the stored access credential is expired when
\* cleanupExpiredTokens runs, then after the call access and refresh are both
\* absent, also when the refresh credential itself is unexpired.
C3_Cascade ==
  [][(RunsCleanup /\ Truthy(localStorage[ACCESS])
        /\ isTokenExpired(localStorage[ACCESS], now))
       => (localStorage'[ACCESS] = NULL /\ ~Truthy(localStorage'[REFRESH]))]_vars

\* cleanup found an expired access credential next to an unexpired refresh
\* credential and an unexpired identity credential, and removed the first two
C3_Witness ==
  /\ last.op = "cleanupExpiredTokens"
  /\ last.val = "true"
  /\ Truthy(last.pre[ACCESS]) /\ isTokenExpired(last.pre[ACCESS], now)
  /\ Truthy(last.pre[REFRESH]) /\ ~isTokenExpired(last.pre[REFRESH], now)
  /\ Truthy(last.pre[ID]) /\ ~isTokenExpired(last.pre[ID], now)
  /\ localStorage[ACCESS] = NULL
  /\ localStorage[REFRESH] = NULL
  /\ localStorage[ID] = last.pre[ID]

\* C4: hasValidTokens first runs the expiry cleanup (no expired access or
\* identity credential is left in the store) and then returns true if and
\* only if an access credential is present and not expired; it returns false
\* whenever access is absent, whatever refresh and identity hold.
C4_HasValidTokens ==
  [][hasValidTokens =>
       /\ \A k \in {ACCESS, ID} :
            Truthy(localStorage[k]) /\ isTokenExpired(localStorage[k], now)
              => localStorage'[k] = NULL
       /\ last'.val = "true" <=>
            (Truthy(localStorage'[ACCESS]) /\ ~isTokenExpired(localStorage'[ACCESS], now))
       /\ last'.val = "true" <=>
            (Truthy(localStorage[ACCESS]) /\ ~isTokenExpired(localStorage[ACCESS], now))
       /\ ~Truthy(localStorage[ACCESS]) => last'.val = "false"]_vars

\* hasValidTokens has found an unexpired access credential next to an expired
\* identity credential, has removed the latter and has answered true
C4_Witness ==
  /\ last.op = "hasValidTokens"
  /\ last.val = "true"
  /\ Truthy(last.pre[ID]) /\ isTokenExpired(last.pre[ID], now)
  /\ localStorage[ID] = NULL
  /\ Truthy(localStorage[ACCESS])
  /\ localStorage[ACCESS] = last.pre[ACCESS]

\* C9: refreshToken with no refresh credential stored returns false without
\* making any network call and without changing the store.
C9_RefreshWithoutCredential ==
  [][(refreshToken_call /\ ~Truthy(localStorage[REFRESH]))
       => /\ last'.op = "refreshToken"
          /\ last'.outcome = "return"
          /\ last'.val = "false"
          /\ last'.net = 0
          /\ refreshTask' = "idle"
          /\ localStorage' = localStorage]_vars

\* refreshToken has returned false on the spot, with access present and no
\* refresh credential in the store
C9_Witness ==
  /\ last.op = "refreshToken"
  /\ last.outcome = "return"
  /\ last.val = "false"
  /\ last.net = 0
  /\ last.pre[REFRESH] = NULL
  /\ Truthy(last.pre[ACCESS])
  /\ refreshTask = "idle"

\* C10: refreshToken with a stored refresh credential and a backend that
\* answers with a new Credential Set returns true and overwrites all three
\* slots; reading the access credential afterwards gives the new value.
C10_RefreshOverwrites ==
  [][\A resp \in TokenResponses :
       (refreshToken_resume(resp) /\ FullSet(resp))
         => /\ last'.op = "refreshToken"
            /\ last'.val = "true"
            /\ localStorage'[ACCESS] = resp.tokens.access_token
            /\ localStorage'[REFRESH] = resp.tokens.refresh_token
            /\ localStorage'[ID] = resp.tokens.id_token
            /\ getTokens(localStorage').accessToken = resp.tokens.access_token]_vars

\* a refresh has returned true and every slot now holds a value different
\* from the one it held before
C10_Witness ==
  /\ last.op = "refreshToken"
  /\ last.val = "true"
  /\ last.net = 1
  /\ \A k \in Keys : Truthy(last.pre[k]) /\ Truthy(localStorage[k])
                       /\ localStorage[k] # last.pre[k]

\* the credential in slot k is there and unexpired
Unexpired(ls, k, t) == Truthy(ls[k]) /\ ~isTokenExpired(ls[k], t)
\* the call has taken the credential out of slot k
Removed(k) == Truthy(localStorage[k]) /\ localStorage'[k] = NULL

\* C19: cleanupExpiredTokens returns true if and only if that call removed
\* the access slot or the identity slot; when identity is expired and access
\* is unexpired, the call removes identity and refresh, keeps access, and
\* returns true.
C19_CleanupReturn ==
  [][cleanupExpiredTokens
       => /\ (last'.val = "true") <=> (Removed(ACCESS) \/ Removed(ID))
          /\ (/\ Truthy(localStorage[ID])
              /\ isTokenExpired(localStorage[ID], now)
              /\ Unexpired(localStorage, ACCESS, now))
               => /\ Removed(ID)
                  /\ ~Truthy(localStorage'[REFRESH])
                  /\ localStorage'[ACCESS] = localStorage[ACCESS]
                  /\ last'.val = "true"]_vars

\* cleanup found an expired identity credential next to an unexpired access
\* credential and a refresh credential; it removed identity and refresh
C19_Witness ==
  /\ last.op = "cleanupExpiredTokens"
  /\ last.val = "true"
  /\ Truthy(last.pre[ID]) /\ isTokenExpired(last.pre[ID], now)
  /\ Unexpired(last.pre, ACCESS, now)
  /\ Truthy(last.pre[REFRESH])
  /\ localStorage[ID] = NULL
  /\ localStorage[REFRESH] = NULL
  /\ localStorage[ACCESS] = last.pre[ACCESS]

\* C20: cleanupExpiredTokens never removes an access or identity credential
\* that is unexpired at the time of the call, and removes refresh only in a
\* call that also removed access or identity; when neither access nor
\* identity is expired the store is left unchanged, even if the refresh
\* credential is itself expired.
C20_CleanupKeepsUnexpired ==
  [][cleanupExpiredTokens
       => /\ \A k \in {ACCESS, ID} :
               Unexpired(localStorage, k, now) => localStorage'[k] = localStorage[k]
          /\ localStorage'[REFRESH] # localStorage[REFRESH]
               => (Removed(ACCESS) \/ Removed(ID))
          /\ (\A k \in {ACCESS, ID} :
                 ~Truthy(localStorage[k]) \/ ~isTokenExpired(localStorage[k], now))
               => localStorage' = localStorage]_vars

\* cleanup left an expired refresh credential in place next to unexpired
\* access and identity credentials
C20_Witness ==
  /\ last.op = "cleanupExpiredTokens"
  /\ last.val = "false"
  /\ Unexpired(last.pre, ACCESS, now)
  /\ Unexpired(last.pre, ID, now)
  /\ Truthy(last.pre[REFRESH]) /\ isTokenExpired(last.pre[REFRESH], now)
  /\ localStorage = last.pre

\* a non-2xx answer, or a fetch that rejected
RefreshFailed(resp) == resp.kind \in {"http", "neterr"}

\* C11: when the remote refresh call fails (non-2xx answer or network
\* error), refreshToken returns false and the access, refresh and identity
\* slots are exactly as they were before.
C11_RefreshFailureKeepsStore ==
  [][\A resp \in TokenResponses :
       (refreshToken_resume(resp) /\ RefreshFailed(resp))
         => /\ last'.op = "refreshToken"
            /\ last'.val = "false"
            /\ localStorage' = localStorage]_vars

\* a refresh that went to the network came back false over a full store
C11_Witness ==
  /\ last.op = "refreshToken"
  /\ last.val = "false"
  /\ last.net = 1
  /\ last.outcome = "return"
  /\ localStorage = last.pre
  /\ \A k \in Keys : Truthy(localStorage[k])

\* checkAuth has returned a profile
CheckAuthReportsUser ==
  /\ last.op = "checkAuth"
  /\ last.outcome = "return"
  /\ last.val # Null

\* C16: whenever the session check reports an authenticated user (checkAuth
\* returns a non-null profile), an access credential is present in the
\* store: absence of access implies the session is unauthenticated.
C16_UserImpliesAccess == CheckAuthReportsUser => Truthy(localStorage[ACCESS])

\* C18: one session initialization performs at most one opportunistic
\* exchange attempt, whatever the backend answers, including an exchange
\* endpoint that keeps answering 200 with expired, malformed or incomplete
\* tokens.
C18_OneExchange == checkTask.exchanges <= 1

----------------------------------------------------------------------------
(* Properties of the multi-tenant login (SpecLogin) *)

SuccessAnswer(resp) == resp.kind = "ok" /\ resp.data.success
FailurePayload(resp) ==
  resp.kind = "ok" /\ ~resp.data.success /\ resp.data.message # Undefined

\* the login attempt is Failed: an error is shown, the form is no longer
\* submitting, the browser has not been sent anywhere
LoginFailed ==
  /\ loginError # ""
  /\ ~loginLoading
  /\ loginTask = "idle"
  /\ href = App

\* C7: when the backend answers {success:true, auth_url, company},
\* initiateLogin resolves with exactly that auth_url, and the access, refresh
\* and identity slots (local store and cookie jar) are the same after the
\* call as before it.
C7_InitiateSuccess ==
  [][/\ \A resp \in LoginResponses :
          (handleLoginSubmit_resume(resp) /\ SuccessAnswer(resp))
            => /\ last'.op = "initiateLogin"
               /\ last'.outcome = "return"
               /\ last'.val = resp.data.auth_url
     /\ (handleLoginSubmit \/ handleLoginSubmit_settled)
          => (localStorage' = localStorage /\ cookie' = cookie)]_vars

\* initiateLogin has resolved with the tenant's auth_url while the store held
\* a full credential set, which is still there
C7_Witness ==
  /\ last.op = "initiateLogin"
  /\ last.outcome = "return"
  /\ last.val = AcmeUrl
  /\ \A k \in Keys : Truthy(localStorage[k]) /\ localStorage[k] = last.pre[k]

\* C8 as stated: on HTTP 200 with {success:false, message:m} initiateLogin
\* rejects with an error whose message is exactly m, and the login attempt
\* ends in state Failed.
C8_FailureMessageExact ==
  [][\A resp \in LoginResponses :
       (handleLoginSubmit_resume(resp) /\ FailurePayload(resp))
         => /\ last'.outcome = "throw"
            /\ last'.val = resp.data.message
            /\ LoginFailed']_vars

\* C8 amended: on HTTP 200 with {success:false, message:m} initiateLogin
\* rejects with an error whose message is m when m is not empty and
\* "Login failed" when m is the empty string; the login attempt ends in
\* state Failed showing that message.
C8_FailureMessage ==
  [][\A resp \in LoginResponses :
       (handleLoginSubmit_resume(resp) /\ FailurePayload(resp))
         => /\ last'.op = "initiateLogin"
            /\ last'.outcome = "throw"
            /\ last'.val = (IF resp.data.message = "" THEN "Login failed"
                            ELSE resp.data.message)
            /\ loginError' = last'.val
            /\ LoginFailed']_vars

\* the attempt has failed with the backend's message on display
C8_Witness ==
  /\ last.op = "initiateLogin"
  /\ last.outcome = "throw"
  /\ last.val = "unknown domain"
  /\ loginError = "unknown domain"
  /\ LoginFailed

----------------------------------------------------------------------------
(* Properties of the credential codec (SpecCodec) *)

\* the segment is base64url-encoded JSON
IsBase64Json(seg) == seg.kind \in {"null", "obj"}

\* the string is not three dot-delimited segments, or its middle segment is
\* not base64url-encoded JSON
FailsToDecode(token) == Len(token) # 3 \/ ~IsBase64Json(token[2])

\* C1: isTokenExpired returns true for every credential string that fails to
\* decode: every string that is not three dot-delimited segments, and every
\* string whose middle segment is not base64url-encoded JSON.
C1_FailClosed ==
  (probe.verdict # "none" /\ FailsToDecode(probe.token)) => probe.verdict = "true"

----------------------------------------------------------------------------
(* Properties of logout (SpecCookie) *)

\* no slot can be read back from the active backend: the read path
\* getAccessTokenFromCookie / getRefreshTokenFromCookie looks into the local
\* store first and the cookie jar second in cross-origin development, and
\* into the cookie jar alone otherwise
NoSlotReadable ==
  /\ ~Truthy(getAccessTokenFromCookie(localStorage, cookie))
  /\ ~Truthy(getRefreshTokenFromCookie(localStorage, cookie))

\* logout() has run to its end and the backend has answered 2xx
LogoutHasRun ==
  /\ last.op = "AuthProvider.logout"
  /\ last.outcome = "return"
  /\ last.val = "done"

\* C5: after logout() has run, from any prior state, hasValidSession() is
\* false and none of the access, refresh and identity slots can be read back
\* from the active backend (stated here for the logout the backend has
\* answered, the case most favourable to the code).
C5_LogoutClearsSession ==
  LogoutHasRun =>
    /\ NoSlotReadable
    /\ ~CookieIsAuthenticated(localStorage, cookie)

\* C6: logout() clears the local session (credentials, current user) first,
\* before the backend is asked, and whatever the backend answers: neither an
\* unanswered nor a failing logout request leaves the local session in place.
C6_LogoutIsOptimistic ==
  [][(AuthProvider_logout \/ AuthProvider_logout_settled)
       => (user' = Null /\ NoSlotReadable')]_vars

\* C15: a stale in-flight initialization (exchange or current-user lookup)
\* whose result arrives after a logout is discarded: the late response
\* neither writes credentials into the store nor sets the current user
\* again.  Stated for the response that arrives right after the logout has
\* completed.
C15_StaleInitDiscarded ==
  [][(LogoutHasRun /\ (loadUser_tokens_settled \/ loadUser_me_settled))
       => (user' = Null /\ localStorage' = localStorage)]_vars

C21_AuthenticatedIsUnexpired ==
  CookieIsAuthenticated(localStorage, cookie)
    => ~isTokenExpired(getAccessTokenFromCookie(localStorage, cookie), now)

\* C22: a partial credential set is not an error: with access present and
\* unexpired and refresh absent, the controller's isAuthenticated reports
\* the session authenticated.
C22_PartialSetAuthenticated ==
  (/\ Truthy(getAccessTokenFromCookie(localStorage, cookie))
   /\ ~isTokenExpired(getAccessTokenFromCookie(localStorage, cookie), now)
   /\ ~Truthy(getRefreshTokenFromCookie(localStorage, cookie)))
    => CookieIsAuthenticated(localStorage, cookie)

----------------------------------------------------------------------------
(* Properties of the login initiation (SpecInitiate) *)

\* C23: initiate validates that the email is non-empty before anything
\* else: for an empty or whitespace-only email no request is sent to the
\* tenant-detection endpoint, through the login forms and through
\* FrontendAuth.initiateLogin / AuthService.initiateLogin alike.
C23_NoRequestForEmptyEmail ==
  [][\A email \in Emails :
       (/\ trim(email) = ""
        /\ handleLoginSubmit_call(email) \/ FrontendAuth_initiateLogin_call(email))
         => (last'.net = 0 /\ last'.outcome # "pending")]_vars

\* the answer is a failure payload: HTTP 200 with success:false
PayloadFailure(resp) == resp.kind = "ok" /\ ~resp.data.success
\* the answer is a transport-level failure: non-2xx, or no answer at all
TransportFailure(resp) == resp.kind \in {"http", "httpraw", "neterr"}

\* C24: initiateLogin rejects on every non-success path (HTTP 200 with
\* success:false, a non-2xx response with or without a JSON body, a network
\* error), and the outcome of a transport-level failure differs from the
\* outcome of every failure payload.
C24_FailureOutcomes ==
  [][\A resp \in LoginResponses :
       (FrontendAuth_initiateLogin_resume(resp) /\ ~SuccessAnswer(resp))
         => /\ last'.outcome = "throw"
            /\ TransportFailure(resp)
                 => \A p \in LoginResponses :
                      PayloadFailure(p) => initiateLogin(p).val # last'.val]_vars

----------------------------------------------------------------------------
(* Properties of the login form's attempt (SpecLogin) *)

\* the state of the tenant login attempt, read off the form
LoginPhase ==
  CASE loginTask = "fetch" /\ loginLoading -> "Submitting"
    [] loginTask = "idle" /\ loginLoading /\ href # App -> "Redirecting"
    [] loginTask = "idle" /\ ~loginLoading /\ loginError # "" /\ href = App -> "Failed"
    [] loginTask = "idle" /\ ~loginLoading /\ loginError = "" /\ href = App -> "Idle"
    [] OTHER -> "none"

LoginTransitions ==
  {<<"Idle", "Submitting">>, <<"Failed", "Submitting">>,
   <<"Submitting", "Redirecting">>, <<"Submitting", "Failed">>}

\* a request goes out to the tenant-detection endpoint
SubmissionStarts == last'.op = "initiateLogin" /\ last'.outcome = "pending"

----------------------------------------------------------------------------
(* Properties of the session initialization of the AuthProvider *)

\* a loadUser is under way: the mount effect is about to call it, or it is
\* suspended in one of its requests
LoadRunning == loadTask \in {"mount", "tokens", "me"}

\* loadUser has just run to its end: isLoading is false and the current user
\* is the profile it got, or null
LoadEnded ==
  /\ last.op = "loadUser"
  /\ last.outcome = "return"
  /\ loadTask = "idle"
  /\ ~isLoading
  /\ \/ last.val = Alice /\ user = Alice
     \/ last.val = Null /\ user = Null

----------------------------------------------------------------------------
(* Properties of concurrent writers of the store (SpecConcurrent) *)

\* the step writes the three slots from one response
WritesOneSet == \E resp \in TokenResponses : localStorage' = setTokens(resp.tokens)
\* the step only takes credentials out
OnlyRemoves == \A k \in Keys : localStorage'[k] \in {localStorage[k], NULL}

\* an exchange or a refresh has just written its response
FreshlyWritten ==
  /\ last.op \in {"refreshToken", "exchangeCookiesForTokens"}
  /\ last.outcome = "return"
  /\ last.val = "true"

\* C27 as stated: Credential Set writes are atomic and not interleaved:
\* under any interleaving of initializations, refreshes and sweep callbacks
\* the three slots never mix values of two responses (every step writes the
\* whole set of one response or only removes), and a cleanup that follows a
\* write never discards a freshly written unexpired credential.
C27_AtomicWritesAsStated ==
  [][/\ WritesOneSet \/ OnlyRemoves
     /\ (FreshlyWritten /\ cleanupInterval_fires)
          => \A k \in Keys :
               Unexpired(localStorage, k, now) => localStorage'[k] = localStorage[k]]_vars

\* C27 amended: the three slots never mix values of two responses, and a
\* cleanup that follows a write never discards a freshly written unexpired
\* access or identity credential; it discards the freshly written refresh
\* credential only by the cascade, in a call that removes the access or the
\* identity credential of the same set.
C27_AtomicWrites ==
  [][/\ WritesOneSet \/ OnlyRemoves
     /\ (FreshlyWritten /\ cleanupInterval_fires)
          => /\ \A k \in {ACCESS, ID} :
                  Unexpired(localStorage, k, now) => localStorage'[k] = localStorage[k]
             /\ localStorage'[REFRESH] # localStorage[REFRESH]
                  => (Removed(ACCESS) \/ Removed(ID))]_vars

\* a sweep ran right after a refresh or an exchange had written an
\* unexpired set, and left all of it in place
C27_Witness ==
  /\ last.op = "cleanupInterval"
  /\ last.val = "false"
  /\ prev.op \in {"refreshToken", "exchangeCookiesForTokens"}
  /\ prev.val = "true"
  /\ localStorage = last.pre
  /\ \A k \in Keys : Unexpired(localStorage, k, now)

----------------------------------------------------------------------------
(* Properties of the dual-backend store (SpecBackend, SpecCookie) *)

\* C28: backend resolution on reads.  In cross-origin (development) mode a
\* slot is read from the persistent local store first and from the cookie
\* jar only when the local store has no value for it; in same-origin /
\* production mode a slot is read from the cookie jar only, whatever the
\* local store contains.
C28_ReadResolution ==
  [][\A name \in CookieNames :
       getTokenFromCookie_read(name)
         => /\ (dev /\ Truthy(localStorage[name])) => last'.tok = localStorage[name]
            /\ (dev /\ ~Truthy(localStorage[name])) => last'.tok = cookie[name]
            /\ ~dev => last'.tok = cookie[name]]_vars

\* in development mode a slot was read from the local store although the
\* cookie jar holds another value for it
C28_Witness ==
  /\ last.op = "getTokenFromCookie"
  /\ dev
  /\ Truthy(localStorage[last.val])
  /\ Truthy(cookie[last.val])
  /\ cookie[last.val] # localStorage[last.val]
  /\ last.tok = localStorage[last.val]

\* the step changes the cookie jar by an answer of the backend: the
\* Set-Cookie headers of the logout answer or of the redirect back
BackendSetsCookies == AuthProvider_logout_settled \/ CookiePageLoad

\* C29: backend resolution on writes.  In cross-origin mode set and clear
\* act on the persistent local store only; in same-origin / production mode
\* no client operation writes to either backend (the post-login exchange
\* returns false without a network call and stores nothing), and in no mode
\* does the client write the cookie jar itself.
C29_WriteResolution ==
  [][/\ ~dev => localStorage' = localStorage
     /\ (~dev /\ ~CookieIsAuthenticated(localStorage, cookie) /\ loadUser)
          => (last'.outcome = "return" /\ last'.net = 0)
     /\ cookie' # cookie => BackendSetsCookies]_vars

----------------------------------------------------------------------------
(* Properties of the API client (SpecApi) *)

\* C30: the API client attaches the header Authorization: Bearer <access>
\* to an outgoing request exactly when an access credential is present, and
\* the attached value is the access credential currently in the store; an
\* expired access credential is never attached.
C30_BearerHeader ==
  [][(axiosRequest \/ apiCall)
       => /\ last'.net = 1 =>
               /\ Truthy(last'.tok) <=> Unexpired(localStorage, ACCESS, now)
               /\ Truthy(last'.tok) => last'.tok = localStorage'[ACCESS]
               /\ Truthy(last'.tok) => ~isTokenExpired(last'.tok, now)
          /\ last'.net = 0 => ~Unexpired(localStorage, ACCESS, now)]_vars

\* a request went out without the header because the access credential in
\* the store had expired
C30_Witness ==
  /\ last.op = "api.request"
  /\ last.net = 1
  /\ ~Truthy(last.tok)
  /\ Truthy(last.pre[ACCESS])
  /\ PayloadOf(last.pre[ACCESS]) = <<ObjSeg(1)>>
  /\ localStorage[ACCESS] = NULL

----------------------------------------------------------------------------
(* Frame of an API request (SpecApi) *)

\* C31: issuing a request through the API client has no side effect beyond
\* the single request: it leaves the access, refresh and identity slots
\* unchanged, and on a 401 answer it neither retries nor calls refresh.
C31_RequestFrame ==
  [][/\ (axiosRequest \/ apiCall)
          => (localStorage' = localStorage /\ refreshTask' = refreshTask)
     /\ apiResponse("401")
          => (localStorage' = localStorage /\ refreshTask' = refreshTask
              /\ last'.net = 0)]_vars

----------------------------------------------------------------------------
(* Expiry verdicts (SpecCodec) *)

\* C32: isTokenExpired returns false only for a token whose payload decodes
\* to an object carrying a numeric exp with exp >= now (exp equal to now
\* counts as not expired); a token whose decoded payload has no exp claim
\* is never reported as unexpired.
C32_UnexpiredCarriesExp ==
  probe.verdict = "false" =>
    LET payload == PayloadOf(probe.token) IN
      /\ Truthy(payload)
      /\ payload[1].kind = "obj"
      /\ payload[1].exp # NoExp
      /\ payload[1].exp >= now

----------------------------------------------------------------------------
(* Overlapping session initializations (SpecRefetch) *)

\* C33: isLoading is true whenever at least one session initialization
\* (loadUser) is in flight: with two overlapping initializations (mount and
\* refetchUser), the completion of the first does not set isLoading to false
\* while the second is still awaiting its network call.
C33_LoadingWhileInFlight ==
  (loadTask \in {"tokens", "me"} \/ refetchTask \in {"tokens", "me"}) => isLoading

----------------------------------------------------------------------------
(* Authenticated sessions carry a profile (SpecCookie) *)

\* C34: once initialization has finished (isLoading false), isAuthenticated
\* true implies the current user is non-null: the controller never exposes
\* an authenticated session without a user profile, including after the
\* current-user lookup failed while tokens are still stored.
C34_AuthenticatedHasUser ==
  (PageAlive /\ loadTask = "idle" /\ ~isLoading
     /\ CookieIsAuthenticated(localStorage, cookie))
    => user # Null

====
